---- MODULE Spec2Model ----
(***************************************************************************)
(* Model of the Actiance message export                                    *)
(* (server/enterprise/message_export/actiance_export/actiance_export.go).  *)
(*                                                                         *)
(* SpecMembers   buildChannelExport on its own: the membership             *)
(*               reconstruction, the still-joined fold and the leave sort. *)
(* SpecExport    ActianceExport end to end: the pass over the posts, one   *)
(*               buildChannelExport per channel, then writeExport.         *)
(* SpecWrite     writeExport on its own, over every list of uploads.       *)
(***************************************************************************)
EXTENDS Integers, Sequences, FiniteSets, TLC

(***************************************************************************)
(* Bounds of the model.                                                    *)
(***************************************************************************)
MaxRows == 2
MaxTime == 3
MaxPosts == 2
MaxFiles == 3

(***************************************************************************)
(* Generic helpers.                                                        *)
(***************************************************************************)
Max(a, b) == IF a >= b THEN a ELSE b

RemoveAt(s, i) == [k \in 1..(Len(s) - 1) |-> IF k < i THEN s[k] ELSE s[k + 1]]

SeqsUpTo(S, n) == UNION {[1..k -> S] : k \in 0..n}

RECURSIVE Orderings(_)
Orderings(S) ==
    IF S = {} THEN {<<>>}
    ELSE UNION {{<<x>> \o t : t \in Orderings(S \ {x})} : x \in S}

(***************************************************************************)
(* Go's string comparison a < b: byte-wise lexicographic.  A string is a   *)
(* sequence of character codes.                                            *)
(***************************************************************************)
RECURSIVE StrLess(_, _)
StrLess(a, b) ==
    IF b = <<>> THEN FALSE
    ELSE IF a = <<>> THEN TRUE
    ELSE IF a[1] # b[1] THEN a[1] < b[1]
    ELSE StrLess(Tail(a), Tail(b))

StrLeq(a, b) == a = b \/ StrLess(a, b)

(***************************************************************************)
(* Users.  The email addresses are "ab" and "b": the shorter one is the    *)
(* lexically greater.  Whether a user is a bot is a property of the user.  *)
(***************************************************************************)
Users == {"A", "B"}

EmailOf(u) == IF u = "A" THEN <<1, 2>> ELSE <<2>>

IsBotOf(u) == u = "B"

NoEmail == <<>>

UserTypeOf(isBot) == IF isBot THEN "bot" ELSE "user"

VARIABLES
    \* buildChannelExport on its own (SpecMembers)
    mChannel,           \* the MetadataChannel handed to buildChannelExport
    mHistory,           \* what GetUsersInChannelDuring returns for it
    mMembers,           \* the ChannelMembers handed to buildChannelExport
    mExport,            \* the ChannelExport returned (JoinEvents, LeaveEvents)
    mPhase,             \* "start", "built", "failed"
    \* the inputs of ActianceExport and the stores behind db
    posts,              \* []*model.MessageExport
    fileStore,          \* db.FileInfo().GetForPost, by post id
    historyStore,       \* db.ChannelMemberHistory().GetUsersInChannelDuring, by channel
    \* ActianceExport
    pc,                 \* "idle", "run", "write_main", "files", "done"
    idx,                \* position of the loop over posts
    elementsByChannel,
    allUploadedFiles,
    membersByChannel,
    metadata,           \* metadata.Channels
    channelExports,
    \* writeExport
    export,             \* the RootNode's Channels
    uploadedFiles,
    fileIdx,            \* position of the loop over uploadedFiles
    missingFiles,
    openStreams,        \* positions whose attachmentSrc is open (not yet closed)
    warningCount,
    appErr,
    \* the collaborators, as logs of the calls made on them
    exportBackend,      \* writes asked of exportBackend: path, content, ok
    readLog,            \* fileAttachmentBackend.Reader calls: path, ok
    lookups             \* store lookups issued: kind, key, ok

mvars == <<mChannel, mHistory, mMembers, mExport, mPhase>>

ivars == <<posts, fileStore, historyStore>>

avars == <<pc, idx, elementsByChannel, allUploadedFiles, membersByChannel,
           metadata, channelExports>>

wloop == <<export, uploadedFiles, fileIdx, missingFiles, openStreams, warningCount>>

wvars == <<export, uploadedFiles, fileIdx, missingFiles, openStreams,
           warningCount, appErr>>

lvars == <<exportBackend, readLog, lookups>>

vars == <<mvars, ivars, avars, wvars, lvars>>

(***************************************************************************)
(* common_export.GetJoinsAndLeavesForChannel.                              *)
(* A history row: UserId, Email and IsBot (NoEmail when the row lacks the  *)
(* identity), JoinTime, LeaveTime (<<>> for nil, <<t>> otherwise).         *)
(***************************************************************************)
Intersects(cmh, startTime, endTime) ==
    /\ cmh.JoinTime <= endTime
    /\ (cmh.LeaveTime = <<>> \/ cmh.LeaveTime[1] >= startTime)

ResolveEmail(cmh, members) ==
    IF cmh.Email # NoEmail THEN cmh.Email
    ELSE IF cmh.UserId \in DOMAIN members THEN members[cmh.UserId].Email
    ELSE NoEmail

ResolveIsBot(cmh, members) ==
    IF cmh.Email # NoEmail THEN cmh.IsBot
    ELSE IF cmh.UserId \in DOMAIN members THEN members[cmh.UserId].IsBot
    ELSE FALSE

RowJoin(cmh, startTime, members) ==
    [Email    |-> ResolveEmail(cmh, members),
     IsBot    |-> ResolveIsBot(cmh, members),
     Datetime |-> Max(cmh.JoinTime, startTime)]

RowLeaveTime(cmh, endTime) ==
    IF cmh.LeaveTime = <<>> \/ cmh.LeaveTime[1] > endTime
    THEN endTime
    ELSE cmh.LeaveTime[1]

RowLeave(cmh, endTime, members) ==
    [Email    |-> ResolveEmail(cmh, members),
     IsBot    |-> ResolveIsBot(cmh, members),
     Datetime |-> RowLeaveTime(cmh, endTime)]

RECURSIVE RowJoins(_, _, _, _)
RowJoins(startTime, endTime, history, members) ==
    IF history = <<>> THEN <<>>
    ELSE (IF Intersects(Head(history), startTime, endTime)
          THEN <<RowJoin(Head(history), startTime, members)>>
          ELSE <<>>)
         \o RowJoins(startTime, endTime, Tail(history), members)

RECURSIVE RowLeaves(_, _, _, _)
RowLeaves(startTime, endTime, history, members) ==
    IF history = <<>> THEN <<>>
    ELSE (IF Intersects(Head(history), startTime, endTime)
          THEN <<RowLeave(Head(history), endTime, members)>>
          ELSE <<>>)
         \o RowLeaves(startTime, endTime, Tail(history), members)

GetJoinsAndLeavesForChannel(startTime, endTime, history, members) ==
    [joins  |-> RowJoins(startTime, endTime, history, members),
     leaves |-> RowLeaves(startTime, endTime, history, members)]

(***************************************************************************)
(* buildChannelExport: the still-joined fold (lines 257-291).              *)
(* stillJoined is a map from email to StillJoinedInfo {Time, Type}.        *)
(***************************************************************************)
ToJoinExport(join) ==
    [UserEmail        |-> join.Email,
     UserType         |-> UserTypeOf(join.IsBot),
     JoinTime         |-> join.Datetime,
     CorporateEmailID |-> join.Email]

ToLeaveExportWithoutTime(leave) ==
    [UserEmail        |-> leave.Email,
     UserType         |-> UserTypeOf(leave.IsBot),
     LeaveTime        |-> 0,
     CorporateEmailID |-> leave.Email]

ToLeaveExport(leave) ==
    [UserEmail        |-> leave.Email,
     UserType         |-> UserTypeOf(leave.IsBot),
     LeaveTime        |-> leave.Datetime,
     CorporateEmailID |-> leave.Email]

RECURSIVE JoinEventsOncePerUser(_)
JoinEventsOncePerUser(joins) ==
    IF joins = <<>> THEN <<>>
    ELSE LET n    == Len(joins)
             init == JoinEventsOncePerUser(SubSeq(joins, 1, n - 1))
         IN  IF \E k \in 1..(n - 1) : joins[k].Email = joins[n].Email
             THEN init
             ELSE Append(init, ToJoinExport(joins[n]))

\* lines 258-268: one JoinExport per join, in the order of the joins
JoinEventsOf(joins) == [k \in DOMAIN joins |-> ToJoinExport(joins[k])]

MapPut(m, key, val) ==
    [k \in DOMAIN m \cup {key} |-> IF k = key THEN val ELSE m[k]]

MapDeleteNothing(m, key) == m

MapDelete(m, key) == [k \in DOMAIN m \ {key} |-> m[k]]

\* stillJoined[email].Time: the zero value when the key is absent
StillJoinedTime(stillJoined, email) ==
    IF email \in DOMAIN stillJoined THEN stillJoined[email].Time ELSE 0

JoinUpdates(stillJoined, join) ==
    \/ join.Email \notin DOMAIN stillJoined
    \/ join.Datetime > stillJoined[join.Email].Time

RECURSIVE FoldJoins(_, _)
FoldJoins(joins, stillJoined) ==
    IF joins = <<>> THEN stillJoined
    ELSE FoldJoins(Tail(joins),
            IF JoinUpdates(stillJoined, Head(joins))
            THEN MapPut(stillJoined, Head(joins).Email,
                        [Time |-> Head(joins).Datetime,
                         Type |-> UserTypeOf(Head(joins).IsBot)])
            ELSE stillJoined)

LeaveAccountsReversed(stillJoined, leave) ==
    leave.Datetime < StillJoinedTime(stillJoined, leave.Email)

LeaveAccountsOrEqual(stillJoined, leave) ==
    leave.Datetime >= StillJoinedTime(stillJoined, leave.Email)

LeaveAccounts(stillJoined, leave) ==
    leave.Datetime > StillJoinedTime(stillJoined, leave.Email)

RECURSIVE FoldLeaves(_, _)
FoldLeaves(leaves, stillJoined) ==
    IF leaves = <<>> THEN stillJoined
    ELSE FoldLeaves(Tail(leaves),
            IF LeaveAccounts(stillJoined, Head(leaves))
            THEN MapDelete(stillJoined, Head(leaves).Email)
            ELSE stillJoined)

StillJoinedAfter(joins, leaves) == FoldLeaves(leaves, FoldJoins(joins, <<>>))

(***************************************************************************)
(* Lines 293-300: one leave at channel.EndTime per user left in the map,   *)
(* appended in the order the map is ranged over (any order).               *)
(***************************************************************************)
SynthLeaves(stillJoined, order, endTime) ==
    [k \in DOMAIN order |->
        [UserEmail        |-> order[k],
         UserType         |-> stillJoined[order[k]].Type,
         LeaveTime        |-> endTime,
         CorporateEmailID |-> order[k]]]

(***************************************************************************)
(* Lines 302-307: sort.Slice with the (LeaveTime, UserEmail) comparison.   *)
(* The sort is not stable: every arrangement in which no element is less   *)
(* than an earlier one is a possible result.                               *)
(***************************************************************************)
LeaveLessByTimeOnly(a, b) == a.LeaveTime < b.LeaveTime

LeaveLessEmailReversed(a, b) ==
    IF a.LeaveTime = b.LeaveTime
    THEN StrLess(b.UserEmail, a.UserEmail)
    ELSE a.LeaveTime < b.LeaveTime

LeaveLessLatestFirst(a, b) ==
    IF a.LeaveTime = b.LeaveTime
    THEN StrLess(a.UserEmail, b.UserEmail)
    ELSE a.LeaveTime > b.LeaveTime

LeaveLess(a, b) ==
    IF a.LeaveTime = b.LeaveTime
    THEN StrLess(a.UserEmail, b.UserEmail)
    ELSE a.LeaveTime < b.LeaveTime

RECURSIVE SortSlice(_)
SortSlice(s) ==
    IF s = <<>> THEN {<<>>}
    ELSE UNION {{<<s[i]>> \o t : t \in SortSlice(RemoveAt(s, i))} :
                  i \in {i \in DOMAIN s :
                            \A j \in DOMAIN s : ~LeaveLess(s[j], s[i])}}

(***************************************************************************)
(* buildChannelExport (lines 238-311) once the history lookup succeeded:   *)
(* the set of ChannelExport values it can return.                          *)
(***************************************************************************)
ChannelExports(channel, members, elements, history) ==
    LET jl     == GetJoinsAndLeavesForChannel(channel.StartTime, channel.EndTime,
                                              history, members)
        still  == StillJoinedAfter(jl.joins, jl.leaves)
        leaves == [k \in DOMAIN jl.leaves |-> ToLeaveExport(jl.leaves[k])]
    IN  {[ChannelId   |-> channel.ChannelId,
          StartTime   |-> channel.StartTime,
          EndTime     |-> channel.EndTime,
          JoinEvents  |-> JoinEventsOf(jl.joins),
          Elements    |-> elements,
          LeaveEvents |-> sorted] :
            sorted \in UNION {SortSlice(leaves \o SynthLeaves(still, order, channel.EndTime)) :
                                order \in Orderings(DOMAIN still)}}

NoExport == [ChannelId |-> "", StartTime |-> 0, EndTime |-> 0,
             JoinEvents |-> <<>>, Elements |-> <<>>, LeaveEvents |-> <<>>]

(***************************************************************************)
(* Initial states.                                                         *)
(***************************************************************************)
IdleMembers ==
    /\ mChannel = [ChannelId |-> "", StartTime |-> 0, EndTime |-> 0]
    /\ mHistory = <<>> /\ mMembers = <<>>
    /\ mExport = NoExport /\ mPhase = "idle"

NotStarted ==
    /\ idx = 1
    /\ elementsByChannel = <<>> /\ allUploadedFiles = <<>>
    /\ membersByChannel = <<>> /\ metadata = <<>> /\ channelExports = <<>>

WriteNotStarted ==
    /\ fileIdx = 1 /\ missingFiles = <<>> /\ openStreams = {}
    /\ warningCount = 0 /\ appErr = "nil"

NoCalls == exportBackend = <<>> /\ readLog = <<>> /\ lookups = <<>>

\* ActianceExport is not running
IdleExport ==
    /\ posts = <<>> /\ fileStore = <<>> /\ historyStore = <<>>
    /\ pc = "idle" /\ NotStarted
    /\ export = <<>> /\ uploadedFiles = <<>> /\ WriteNotStarted
    /\ NoCalls

(***************************************************************************)
(* SpecMembers: buildChannelExport for one channel, over every window,     *)
(* history and member snapshot within the bounds.                          *)
(***************************************************************************)
Times == 0..MaxTime

\* the window of one instant and the widest window that leaves a time before it
Windows == {<<1, 1>>, <<1, MaxTime>>}

HistoryRows(lacking) ==
    {[UserId    |-> u,
      Email     |-> IF u \in lacking THEN NoEmail ELSE EmailOf(u),
      IsBot     |-> IF u \in lacking THEN FALSE ELSE IsBotOf(u),
      JoinTime  |-> j,
      LeaveTime |-> l] :
        u \in Users, j \in Times, l \in {<<>>} \cup {<<t>> : t \in Times}}

WellFormedRow(cmh) == cmh.LeaveTime = <<>> \/ cmh.JoinTime <= cmh.LeaveTime[1]

MembersOf(S) ==
    [u \in S |-> [Email |-> EmailOf(u), UserId |-> u, IsBot |-> IsBotOf(u)]]

\* who the history rows carry no identity for, and who wrote posts in the channel
IdentityCases ==
    {[lacking |-> {},    authors |-> {"A"}],
     [lacking |-> {"B"}, authors |-> Users]}

InitMembers ==
    /\ \E w \in Windows :
          mChannel = [ChannelId |-> "c1", StartTime |-> w[1], EndTime |-> w[2]]
    /\ \E id \in IdentityCases :
          /\ mHistory \in SeqsUpTo({cmh \in HistoryRows(id.lacking) : WellFormedRow(cmh)},
                                   MaxRows)
          /\ mMembers = MembersOf(id.authors)
    /\ mExport = NoExport
    /\ mPhase = "start"
    /\ IdleExport

\* buildChannelExport, run (or run again) on the same inputs
BuildChannelExport ==
    /\ \/ /\ mExport' \in ChannelExports(mChannel, mMembers, <<>>, mHistory)
          /\ mPhase' = "built"
       \/ /\ mExport' = NoExport        \* GetUsersInChannelDuring fails
          /\ mPhase' = "failed"
    /\ UNCHANGED <<mChannel, mHistory, mMembers>>
    /\ UNCHANGED <<ivars, avars, wvars, lvars>>

NextMembers == BuildChannelExport

SpecMembers == InitMembers /\ [][NextMembers]_vars

(***************************************************************************)
(* Text.  A message is a sequence of text pieces; "delete " + x puts the   *)
(* piece "delete " in front of x.  File names and paths are single pieces. *)
(***************************************************************************)
XMLNS == "http://www.w3.org/2001/XMLSchema-instance"

ActianceExportFilename == "actiance_export.xml"

ActianceWarningFilename == "warning.txt"

\* model.PostPropsDeleteBy
PostPropsDeleteBy == "deleteBy"

\* common_export.MissingFileMessage
MissingFileMessage == "File missing for post; cannot copy file to archive"

Concat(prefix, text) == <<prefix>> \o text

\* path.Join(dir, name)
PathJoin(dir, name) == <<dir, name>>

(***************************************************************************)
(* json.Unmarshal([]byte(text), &props) into a map[string]any: whether it  *)
(* succeeds, and the keys of the map.                                      *)
(***************************************************************************)
JsonUnmarshal(text) ==
    CASE text = "{}" -> [ok |-> TRUE, keys |-> {}]
      [] text = "{\"deleteBy\":\"u1\"}" -> [ok |-> TRUE, keys |-> {"deleteBy"}]
      [] text = "{\"from_bot\":\"true\"}" -> [ok |-> TRUE, keys |-> {"from_bot"}]
      [] text = "null" -> [ok |-> TRUE, keys |-> {}]
      [] OTHER -> [ok |-> FALSE, keys |-> {}]

\* model.MessageExport.PreviewID
PreviewID(post) == post.PreviewId

(***************************************************************************)
(* postToExportEntry (lines 181-193).                                      *)
(***************************************************************************)
postToExportEntry(post, createTime, message) ==
    [Kind         |-> "Message",
     PostTime     |-> createTime,
     Message      |-> message,
     UserType     |-> UserTypeOf(post.IsBot),
     UserEmail    |-> post.UserEmail,
     PreviewsPost |-> PreviewID(post)]

(***************************************************************************)
(* Lines 124-132: the entry for a deleted post, or nothing.                *)
(***************************************************************************)
HasDeleteMarkerAnyProps(post) ==
    /\ post.PostDeleteAt # <<>>
    /\ post.PostDeleteAt[1] > 0
    /\ post.PostProps # <<>>
    /\ JsonUnmarshal(post.PostProps[1]).ok

HasDeleteMarkerByTimestampOnly(post) ==
    /\ post.PostDeleteAt # <<>>
    /\ post.PostDeleteAt[1] > 0

HasDeleteMarker(post) ==
    /\ post.PostDeleteAt # <<>>
    /\ post.PostDeleteAt[1] > 0
    /\ post.PostProps # <<>>
    /\ JsonUnmarshal(post.PostProps[1]).ok
    /\ PostPropsDeleteBy \in JsonUnmarshal(post.PostProps[1]).keys

DeleteEntries(post) ==
    IF HasDeleteMarker(post)
    THEN <<postToExportEntry(post, post.PostDeleteAt[1],
                             Concat("delete ", post.PostMessage))>>
    ELSE <<>>

(***************************************************************************)
(* postToAttachmentsEntries (lines 195-236), given what GetForPost         *)
(* returned.                                                               *)
(***************************************************************************)
NeedsLookup(post) == Len(post.PostFileIds) # 0

StartUpload(post, fileInfo) ==
    [Kind            |-> "FileTransferStarted",
     UserEmail       |-> post.UserEmail,
     Filename        |-> fileInfo.Name,
     FilePath        |-> fileInfo.Path,
     UploadStartTime |-> post.PostCreateAt]

StopUploadFailedWhenDeleted(post, fileInfo) ==
    [Kind           |-> "FileTransferEnded",
     UserEmail      |-> post.UserEmail,
     Filename       |-> fileInfo.Name,
     FilePath       |-> fileInfo.Path,
     UploadStopTime |-> post.PostCreateAt,
     Status         |-> IF fileInfo.DeleteAt > 0 THEN "Failed" ELSE "Completed"]

StopUpload(post, fileInfo) ==
    [Kind           |-> "FileTransferEnded",
     UserEmail      |-> post.UserEmail,
     Filename       |-> fileInfo.Name,
     FilePath       |-> fileInfo.Path,
     UploadStopTime |-> post.PostCreateAt,
     Status         |-> "Completed"]

FileDeleted(post, fileInfo) == fileInfo.DeleteAt > 0 /\ post.PostDeleteAt # <<>>

RECURSIVE DeleteFileMessages(_, _)
DeleteFileMessages(post, fileInfos) ==
    IF fileInfos = <<>> THEN <<>>
    ELSE (IF FileDeleted(post, Head(fileInfos))
          THEN <<postToExportEntry(post, post.PostDeleteAt[1],
                                   <<"delete ", Head(fileInfos).Path>>)>>
          ELSE <<>>)
         \o DeleteFileMessages(post, Tail(fileInfos))

postToAttachmentsEntries(post, fileInfos) ==
    IF ~NeedsLookup(post)
    THEN [startUploads |-> <<>>, stopUploads |-> <<>>,
          uploadedFiles |-> <<>>, deleteFileMessages |-> <<>>]
    ELSE [startUploads       |-> [k \in DOMAIN fileInfos |-> StartUpload(post, fileInfos[k])],
          stopUploads        |-> [k \in DOMAIN fileInfos |-> StopUpload(post, fileInfos[k])],
          uploadedFiles      |-> fileInfos,
          deleteFileMessages |-> DeleteFileMessages(post, fileInfos)]

\* lines 122-140: everything one post appends to its channel, in order
PostElements(post, fileInfos) ==
    LET att == postToAttachmentsEntries(post, fileInfos)
    IN  <<postToExportEntry(post, post.PostCreateAt, post.PostMessage)>>
        \o DeleteEntries(post)
        \o att.startUploads \o att.stopUploads \o att.deleteFileMessages

\* an error from a store lookup ends ActianceExport (lines 135-137, 167-169)
LookupFatalNever(ok) == FALSE

LookupFatal(ok) == ~ok

(***************************************************************************)
(* common_export.Metadata.Update: the first post of a channel creates its  *)
(* metadata with the window of the job, every post adds to the counts.     *)
(***************************************************************************)
JobWindow == [StartTime |-> 1000, EndTime |-> 2000]

MetadataUpdate(channels, post, attachments) ==
    LET c   == post.ChannelId
        old == IF c \in DOMAIN channels THEN channels[c]
               ELSE [ChannelId        |-> c,
                     StartTime        |-> JobWindow.StartTime,
                     EndTime          |-> JobWindow.EndTime,
                     MessagesCount    |-> 0,
                     AttachmentsCount |-> 0]
    IN  MapPut(channels, c,
               [old EXCEPT !.MessagesCount = @ + 1,
                           !.AttachmentsCount = @ + attachments])

\* lines 146-154
MembersUpdate(byChannel, post) ==
    LET c   == post.ChannelId
        old == IF c \in DOMAIN byChannel THEN byChannel[c] ELSE <<>>
    IN  MapPut(byChannel, c,
               MapPut(old, post.UserId,
                      [Email |-> post.UserEmail, UserId |-> post.UserId,
                       IsBot |-> post.IsBot]))

\* elementsByChannel[c]: nil for a channel not seen yet
ElementsOf(byChannel, c) == IF c \in DOMAIN byChannel THEN byChannel[c] ELSE <<>>

PrependElements(byChannel, c, entries) ==
    MapPut(byChannel, c, entries \o ElementsOf(byChannel, c))

AppendElements(byChannel, c, entries) ==
    MapPut(byChannel, c, ElementsOf(byChannel, c) \o entries)

(***************************************************************************)
(* ActianceExport, lines 117-155: one turn of the loop over posts.         *)
(***************************************************************************)
ClassifyPost ==
    /\ pc = "run"
    /\ idx <= Len(posts)
    /\ LET post == posts[idx]
       IN  IF post.IsNil
           THEN /\ idx' = idx + 1
                /\ UNCHANGED <<pc, elementsByChannel, allUploadedFiles, membersByChannel,
                               metadata, lookups, appErr>>
           ELSE \E ok \in BOOLEAN :
                  LET c         == post.ChannelId
                      fileInfos == IF ok /\ NeedsLookup(post) THEN fileStore[post.PostId]
                                   ELSE <<>>
                      att       == postToAttachmentsEntries(post, fileInfos)
                      asked     == IF NeedsLookup(post)
                                   THEN <<[kind |-> "FileInfo", key |-> <<post.PostId>>,
                                           ok |-> ok]>>
                                   ELSE <<>>
                  IN  /\ (~NeedsLookup(post) => ok)
                      /\ lookups' = lookups \o asked
                      /\ IF NeedsLookup(post) /\ LookupFatal(ok)
                         THEN /\ elementsByChannel' =
                                    AppendElements(elementsByChannel, c,
                                        <<postToExportEntry(post, post.PostCreateAt,
                                                            post.PostMessage)>>
                                        \o DeleteEntries(post))
                              /\ pc' = "done"
                              /\ appErr' = "get_attachment_error"
                              /\ UNCHANGED <<idx, allUploadedFiles, membersByChannel,
                                             metadata>>
                         ELSE /\ elementsByChannel' =
                                    AppendElements(elementsByChannel, c,
                                                   PostElements(post, fileInfos))
                              /\ allUploadedFiles' = allUploadedFiles \o att.uploadedFiles
                              /\ metadata' = MetadataUpdate(metadata, post,
                                                            Len(att.uploadedFiles))
                              /\ membersByChannel' = MembersUpdate(membersByChannel, post)
                              /\ idx' = idx + 1
                              /\ UNCHANGED <<pc, appErr>>
    /\ UNCHANGED <<channelExports, wloop, exportBackend, readLog, mvars, ivars>>

(***************************************************************************)
(* ActianceExport, lines 160-171: buildChannelExport for one channel of    *)
(* metadata.Channels (a map: the channels come in any order).              *)
(***************************************************************************)
BuiltChannels == {channelExports[k].ChannelId : k \in DOMAIN channelExports}

BuildChannelStep ==
    /\ pc = "run"
    /\ idx > Len(posts)
    /\ \E c \in DOMAIN metadata \ BuiltChannels, ok \in BOOLEAN :
          /\ lookups' = Append(lookups, [kind |-> "ChannelMemberHistory",
                                         key |-> <<c>>, ok |-> ok])
          /\ IF LookupFatal(ok)
             THEN /\ pc' = "done"
                  /\ appErr' = "get_users_in_channel_during"
                  /\ UNCHANGED channelExports
             ELSE /\ \E ce \in ChannelExports(metadata[c], membersByChannel[c],
                                              ElementsOf(elementsByChannel, c),
                                              IF ok THEN historyStore[c] ELSE <<>>) :
                        channelExports' = Append(channelExports, ce)
                  /\ UNCHANGED <<pc, appErr>>
    /\ UNCHANGED <<idx, elementsByChannel, allUploadedFiles, membersByChannel, metadata>>
    /\ UNCHANGED <<wloop, exportBackend, readLog, mvars, ivars>>

\* lines 173-178: every channel is built, writeExport is called
CallWriteExport ==
    /\ pc = "run"
    /\ idx > Len(posts)
    /\ DOMAIN metadata \subseteq BuiltChannels
    /\ export' = channelExports
    /\ uploadedFiles' = allUploadedFiles
    /\ pc' = "write_main"
    /\ UNCHANGED <<idx, elementsByChannel, allUploadedFiles, membersByChannel,
                   metadata, channelExports>>
    /\ UNCHANGED <<fileIdx, missingFiles, openStreams, warningCount, appErr>>
    /\ UNCHANGED <<lvars, mvars, ivars>>

(***************************************************************************)
(* writeExport (lines 313-356).                                            *)
(***************************************************************************)
ExportDirectory == "export"

WarningLine(fileInfo) == <<"Warning:", MissingFileMessage, " - ", fileInfo.Path>>

\* lines 326-328: a failed write of the document ends writeExport
MainWriteFatalNever(written) == FALSE

MainWriteFatal(written) == ~written

\* lines 315-328: marshal the document and write it
WriteMain ==
    /\ pc = "write_main"
    /\ \E marshalled \in BOOLEAN, written \in BOOLEAN :
          IF ~marshalled
          THEN /\ appErr' = "marshalToXml"
               /\ pc' = "done"
               /\ UNCHANGED exportBackend
          ELSE /\ exportBackend' =
                    Append(exportBackend,
                           [path    |-> PathJoin(ExportDirectory, ActianceExportFilename),
                            content |-> [XMLNS |-> XMLNS, Channels |-> export],
                            ok      |-> written])
               /\ IF MainWriteFatal(written)
                  THEN pc' = "done" /\ appErr' = "write_file"
                  ELSE pc' = "files" /\ UNCHANGED appErr
    /\ UNCHANGED <<export, uploadedFiles, fileIdx, missingFiles, openStreams, warningCount>>
    /\ UNCHANGED <<idx, elementsByChannel, allUploadedFiles, membersByChannel,
                   metadata, channelExports>>
    /\ UNCHANGED <<readLog, lookups, mvars, ivars>>

\* lines 343-346: a failed copy of an attachment ends writeExport
CopyWriteFatalNever(written) == FALSE

CopyWriteFatal(written) == ~written

\* line 345: the count returned with the copy error is the named result
\* warningCount, which nothing has assigned yet
CountOnCopyFailureAccumulated(missing) == Len(missing)

CountOnCopyFailure(missing) == 0

\* lines 331-347: one turn of the loop over uploadedFiles.  The deferred
\* Close calls run when writeExport returns.
CopyFile ==
    /\ pc = "files"
    /\ fileIdx <= Len(uploadedFiles)
    /\ LET fileInfo == uploadedFiles[fileIdx]
       IN  \E opened \in BOOLEAN, written \in BOOLEAN :
              /\ readLog' = Append(readLog, [path |-> fileInfo.Path, ok |-> opened])
              /\ IF ~opened
                 THEN /\ written
                      /\ missingFiles' = Append(missingFiles, WarningLine(fileInfo))
                      /\ fileIdx' = fileIdx + 1
                      /\ UNCHANGED <<openStreams, exportBackend, pc, appErr, warningCount>>
                 ELSE /\ exportBackend' =
                           Append(exportBackend,
                                  [path    |-> PathJoin(ExportDirectory, fileInfo.Path),
                                   content |-> <<"contents of", fileInfo.Path>>,
                                   ok      |-> written])
                      /\ UNCHANGED missingFiles
                      /\ IF CopyWriteFatal(written)
                         THEN /\ openStreams' = {}
                              /\ pc' = "done"
                              /\ appErr' = "write_file"
                              /\ warningCount' = CountOnCopyFailure(missingFiles)
                              /\ UNCHANGED fileIdx
                         ELSE /\ openStreams' = openStreams \cup {fileIdx}
                              /\ fileIdx' = fileIdx + 1
                              /\ UNCHANGED <<pc, appErr, warningCount>>
    /\ UNCHANGED <<export, uploadedFiles>>
    /\ UNCHANGED <<idx, elementsByChannel, allUploadedFiles, membersByChannel,
                   metadata, channelExports>>
    /\ UNCHANGED <<lookups, mvars, ivars>>

\* lines 348-355: the warning count, the warning file, the return
WarningCountAsFlag(missing) == IF missing = <<>> THEN 0 ELSE 1

WarningCountOf(missing) == Len(missing)

\* lines 349-355: the count is returned whether or not the warning file
\* was written
CountReturnedOnlyOnSuccess(count, written) == IF written THEN count ELSE 0

CountReturned(count, written) == count

FinishWrite ==
    /\ pc = "files"
    /\ fileIdx > Len(uploadedFiles)
    /\ LET count == WarningCountOf(missingFiles)
       IN  IF count > 0
           THEN \E written \in BOOLEAN :
                  /\ exportBackend' =
                        Append(exportBackend,
                               [path    |-> PathJoin(ExportDirectory, ActianceWarningFilename),
                                content |-> missingFiles,
                                ok      |-> written])
                  /\ appErr' = IF written THEN appErr ELSE "write_file"
                  /\ warningCount' = CountReturned(count, written)
           ELSE /\ warningCount' = count
                /\ UNCHANGED <<exportBackend, appErr>>
    /\ openStreams' = {}
    /\ pc' = "done"
    /\ UNCHANGED <<export, uploadedFiles, fileIdx, missingFiles>>
    /\ UNCHANGED <<idx, elementsByChannel, allUploadedFiles, membersByChannel,
                   metadata, channelExports>>
    /\ UNCHANGED <<readLog, lookups, mvars, ivars>>

(***************************************************************************)
(* SpecExport: ActianceExport over every list of at most MaxPosts posts.   *)
(* Post number id has message MessageTexts[id] and, when it has a file,    *)
(* the file FilePaths[id].                                                 *)
(***************************************************************************)
Channels == {"c1", "c2"}

MessageTexts == <<"m1", "m2", "m3", "m4">>

FilePaths == <<"f1", "f2", "f3", "f4">>

FileNames == <<"n1", "n2", "n3", "n4">>

PostShapes ==
    [IsNil : {FALSE}, ChannelId : Channels, UserId : Users,
     Deleted : BOOLEAN, HasFile : BOOLEAN]
    \cup [IsNil : {TRUE}, ChannelId : {"c1"}, UserId : {"A"},
          Deleted : {FALSE}, HasFile : {FALSE}]

MkPost(id, shape) ==
    [IsNil        |-> shape.IsNil,
     PostId       |-> id,
     ChannelId    |-> shape.ChannelId,
     UserId       |-> shape.UserId,
     UserEmail    |-> EmailOf(shape.UserId),
     IsBot        |-> IsBotOf(shape.UserId),
     PostCreateAt |-> 1200,
     PostMessage  |-> <<MessageTexts[id]>>,
     PostDeleteAt |-> IF shape.Deleted THEN <<1700>> ELSE <<>>,
     PostProps    |-> IF shape.Deleted THEN <<"{\"deleteBy\":\"u1\"}">> ELSE <<>>,
     PostFileIds  |-> IF shape.HasFile THEN <<"id">> ELSE <<>>,
     PreviewId    |-> ""]

MkFiles(id, shape) ==
    IF shape.HasFile
    THEN <<[Name |-> FileNames[id], Path |-> FilePaths[id],
            DeleteAt |-> IF shape.Deleted THEN 1700 ELSE 0]>>
    ELSE <<>>

HistoryRow(u, joinTime, leaveTime) ==
    [UserId |-> u, Email |-> EmailOf(u), IsBot |-> IsBotOf(u),
     JoinTime |-> joinTime, LeaveTime |-> leaveTime]

ScenarioHistory == <<HistoryRow("A", 900, <<>>), HistoryRow("B", 1500, <<1600>>)>>

HistoryChoices == {ScenarioHistory, <<>>}

InitExport ==
    /\ IdleMembers
    /\ \E shapes \in SeqsUpTo(PostShapes, MaxPosts) :
          /\ posts = [id \in DOMAIN shapes |-> MkPost(id, shapes[id])]
          /\ fileStore = [id \in DOMAIN shapes |-> MkFiles(id, shapes[id])]
    /\ historyStore \in [Channels -> HistoryChoices]
    /\ pc = "run" /\ NotStarted
    /\ export = <<>> /\ uploadedFiles = <<>> /\ WriteNotStarted
    /\ NoCalls

NextExport ==
    \/ ClassifyPost
    \/ BuildChannelStep
    \/ CallWriteExport
    \/ WriteMain
    \/ CopyFile
    \/ FinishWrite

SpecExport == InitExport /\ [][NextExport]_vars

(***************************************************************************)
(* SpecWrite: writeExport over every list of at most MaxFiles uploads.     *)
(***************************************************************************)
WriteFiles == {[Name |-> FileNames[k], Path |-> FilePaths[k], DeleteAt |-> 0] : k \in 1..2}

InitWrite ==
    /\ IdleMembers
    /\ posts = <<>> /\ fileStore = <<>> /\ historyStore = <<>>
    /\ pc = "write_main" /\ NotStarted
    /\ export = <<>>
    /\ uploadedFiles \in SeqsUpTo(WriteFiles, MaxFiles)
    /\ WriteNotStarted
    /\ NoCalls

NextWrite ==
    \/ WriteMain
    \/ CopyFile
    \/ FinishWrite

SpecWrite == InitWrite /\ [][NextWrite]_vars

(***************************************************************************)
(* SpecClassify: lines 117-155 for one post, drawn from every combination  *)
(* of deletion time (nil, 0, set), props (nil, not JSON, JSON without and  *)
(* with the deleteBy key), file ids and file infos that GetForPost finds   *)
(* for it (at most MaxAttachments, each deleted or not).                   *)
(***************************************************************************)
MaxAttachments == 2

DeleteAtChoices == {<<>>, <<0>>, <<1700>>}

PropsChoices ==
    {<<>>, <<"{">>, <<"{}">>, <<"null">>,
     <<"{\"from_bot\":\"true\"}">>, <<"{\"deleteBy\":\"u1\"}">>}

FileIdChoices == UNION {[1..n -> {"id"}] : n \in 0..MaxAttachments}

FileInfoChoices ==
    UNION {{[k \in 1..n |-> [Name |-> FileNames[k], Path |-> FilePaths[k],
                             DeleteAt |-> deleteAt[k]]] :
              deleteAt \in [1..n -> {0, 1800}]} : n \in 0..MaxAttachments}

InitClassify ==
    /\ IdleMembers
    /\ \E u \in Users, deleteAt \in DeleteAtChoices, props \in PropsChoices,
          ids \in FileIdChoices, fileInfos \in FileInfoChoices :
          /\ (ids = <<>> => fileInfos = <<>>)
          /\ posts = <<[MkPost(1, [IsNil |-> FALSE, ChannelId |-> "c1", UserId |-> u,
                                   Deleted |-> FALSE, HasFile |-> FALSE])
                          EXCEPT !.PostDeleteAt = deleteAt,
                                 !.PostProps = props,
                                 !.PostFileIds = ids]>>
          /\ fileStore = <<fileInfos>>
    /\ historyStore = [c \in Channels |-> <<>>]
    /\ pc = "run" /\ NotStarted
    /\ export = <<>> /\ uploadedFiles = <<>> /\ WriteNotStarted
    /\ NoCalls

NextClassify == ClassifyPost

SpecClassify == InitClassify /\ [][NextClassify]_vars

(***************************************************************************)
(* Properties of buildChannelExport, checked under SpecMembers.            *)
(***************************************************************************)
Built == mPhase = "built"

RowEmail(k) == ResolveEmail(mHistory[k], mMembers)

RowIntersects(k) == Intersects(mHistory[k], mChannel.StartTime, mChannel.EndTime)

RowJoinTime(k) == Max(mHistory[k].JoinTime, mChannel.StartTime)

\* row k is the only row of the history with its user (email)
OnlyRow(k) == \A k2 \in DOMAIN mHistory : k2 # k => RowEmail(k2) # RowEmail(k)

JoinsOf(email) == {i \in DOMAIN mExport.JoinEvents : mExport.JoinEvents[i].UserEmail = email}

LeavesOf(email) == {i \in DOMAIN mExport.LeaveEvents : mExport.LeaveEvents[i].UserEmail = email}

JoinsAt(email, t) == {i \in JoinsOf(email) : mExport.JoinEvents[i].JoinTime = t}

LeavesAt(email, t) == {i \in LeavesOf(email) : mExport.LeaveEvents[i].LeaveTime = t}

OneJoinOneLeave(email, joinTime, leaveTime) ==
    /\ Cardinality(JoinsOf(email)) = 1
    /\ Cardinality(JoinsAt(email, joinTime)) = 1
    /\ Cardinality(LeavesOf(email)) = 1
    /\ Cardinality(LeavesAt(email, leaveTime)) = 1

\* C1: in the channel transcript buildChannelExport returns, any two adjacent
\* leave events are in ascending (LeaveTime, UserEmail) order: the first has the
\* smaller timestamp, or the same timestamp and an email lexically less than or
\* equal to the second's.
C1_LeavesSorted ==
    Built =>
        \A i \in 1..(Len(mExport.LeaveEvents) - 1) :
            LET a == mExport.LeaveEvents[i]
                b == mExport.LeaveEvents[i + 1]
            IN  \/ a.LeaveTime < b.LeaveTime
                \/ a.LeaveTime = b.LeaveTime /\ StrLeq(a.UserEmail, b.UserEmail)

\* a transcript with two users leaving at the same time, one of them through a
\* leave synthesized at the window end
C1_Witness ==
    /\ Built
    /\ DOMAIN StillJoinedAfter(
            GetJoinsAndLeavesForChannel(mChannel.StartTime, mChannel.EndTime,
                                        mHistory, mMembers).joins,
            GetJoinsAndLeavesForChannel(mChannel.StartTime, mChannel.EndTime,
                                        mHistory, mMembers).leaves) # {}
    /\ \E i \in 1..(Len(mExport.LeaveEvents) - 1) :
          /\ mExport.LeaveEvents[i].LeaveTime = mExport.LeaveEvents[i + 1].LeaveTime
          /\ mExport.LeaveEvents[i].UserEmail # mExport.LeaveEvents[i + 1].UserEmail

\* a row inside the window with a recorded exit time, the only row of its user
InsideRow(k) ==
    /\ mHistory[k].LeaveTime # <<>>
    /\ mChannel.StartTime <= mHistory[k].JoinTime
    /\ mHistory[k].JoinTime <= mHistory[k].LeaveTime[1]
    /\ mHistory[k].LeaveTime[1] <= mChannel.EndTime
    /\ OnlyRow(k)

\* C3 as stated: every row with windowStart <= entryTime <= exitTime <=
\* windowEnd (entryTime = exitTime included) that is its user's only row gives
\* exactly one join at entryTime and exactly one leave at exitTime.
C3_Original ==
    Built =>
        \A k \in DOMAIN mHistory :
            InsideRow(k) =>
                OneJoinOneLeave(RowEmail(k), mHistory[k].JoinTime, mHistory[k].LeaveTime[1])

\* C3 (amended): every row with windowStart <= entryTime < exitTime <= windowEnd
\* that is its user's only row gives exactly one join for that user, at
\* entryTime, and exactly one leave, at exitTime.
C3_InsideRow ==
    Built =>
        \A k \in DOMAIN mHistory :
            (InsideRow(k) /\ mHistory[k].JoinTime < mHistory[k].LeaveTime[1]) =>
                OneJoinOneLeave(RowEmail(k), mHistory[k].JoinTime, mHistory[k].LeaveTime[1])

C3_Witness ==
    /\ Built
    /\ \E k \in DOMAIN mHistory :
          /\ InsideRow(k)
          /\ mHistory[k].JoinTime < mHistory[k].LeaveTime[1]
          /\ mHistory[k].LeaveTime[1] < mChannel.EndTime
          /\ Len(mHistory) = 2

\* the only row of its user, intersecting the window, with no exit time or an
\* exit time after the window end
OpenRow(k) ==
    /\ RowIntersects(k)
    /\ (mHistory[k].LeaveTime = <<>> \/ mHistory[k].LeaveTime[1] > mChannel.EndTime)
    /\ OnlyRow(k)

Overlap(a, b) ==
    /\ (b.LeaveTime = <<>> \/ a.JoinTime <= b.LeaveTime[1])
    /\ (a.LeaveTime = <<>> \/ b.JoinTime <= a.LeaveTime[1])

OverlappingPair(k1, k2) ==
    /\ k1 < k2
    /\ RowEmail(k1) = RowEmail(k2)
    /\ \A k \in DOMAIN mHistory : RowEmail(k) = RowEmail(k1) => k \in {k1, k2}
    /\ RowIntersects(k1) /\ RowIntersects(k2)
    /\ Overlap(mHistory[k1], mHistory[k2])

RowLeaveAt(k) == RowLeaveTime(mHistory[k], mChannel.EndTime)

\* two joins and two leaves, one pair per row, with that row's own timestamps
TwoPairs(k1, k2) ==
    LET e == RowEmail(k1)
    IN  /\ Cardinality(JoinsOf(e)) = 2
        /\ Cardinality(LeavesOf(e)) = 2
        /\ JoinsAt(e, RowJoinTime(k1)) # {} /\ JoinsAt(e, RowJoinTime(k2)) # {}
        /\ LeavesAt(e, RowLeaveAt(k1)) # {} /\ LeavesAt(e, RowLeaveAt(k2)) # {}

\* C6 as stated: a user with two overlapping rows, both intersecting the window,
\* has exactly two joins and exactly two leaves, one pair per row with the
\* timestamps that row gives alone; no third leave is added.
C6_Original ==
    Built =>
        \A k1, k2 \in DOMAIN mHistory : OverlappingPair(k1, k2) => TwoPairs(k1, k2)

\* C6 (amended): the same, provided one of the two leaves is strictly later than
\* the later of the two joins.
C6_TwoPairs ==
    Built =>
        \A k1, k2 \in DOMAIN mHistory :
            (/\ OverlappingPair(k1, k2)
             /\ Max(RowLeaveAt(k1), RowLeaveAt(k2)) > Max(RowJoinTime(k1), RowJoinTime(k2)))
                => TwoPairs(k1, k2)

C6_Witness ==
    /\ Built
    /\ \E k1, k2 \in DOMAIN mHistory :
          /\ OverlappingPair(k1, k2)
          /\ Max(RowLeaveAt(k1), RowLeaveAt(k2)) > Max(RowJoinTime(k1), RowJoinTime(k2))
          /\ RowJoinTime(k1) # RowJoinTime(k2)
          /\ RowLeaveAt(k1) # RowLeaveAt(k2)

\* C7: buildChannelExport run again on the same window, history rows and
\* members returns the same join and leave sequences, field for field, whatever
\* the order the still-joined map is ranged over and whatever the sort does with
\* leave events that compare equal.
C7_Deterministic ==
    [][(mPhase = "built" /\ mPhase' = "built") =>
            /\ mExport'.JoinEvents = mExport.JoinEvents
            /\ mExport'.LeaveEvents = mExport.LeaveEvents]_mvars

\* two users are still joined at the window end (two synthesized leaves at the
\* same time, appended in either order) and the transcript was built
C7_Witness ==
    /\ Built
    /\ Cardinality({i \in DOMAIN mExport.LeaveEvents :
                        mExport.LeaveEvents[i].LeaveTime = mChannel.EndTime}) >= 2
    /\ Cardinality(DOMAIN StillJoinedAfter(
            GetJoinsAndLeavesForChannel(mChannel.StartTime, mChannel.EndTime,
                                        mHistory, mMembers).joins,
            GetJoinsAndLeavesForChannel(mChannel.StartTime, mChannel.EndTime,
                                        mHistory, mMembers).leaves)) >= 2

(***************************************************************************)
(* Properties of ActianceExport, checked under SpecExport.                 *)
(***************************************************************************)
\* the post a text piece (message text or file path) belongs to
PieceSource(piece) ==
    CHOOSE p \in DOMAIN MessageTexts : piece \in {MessageTexts[p], FilePaths[p]}

\* the post an element of a transcript was made from
SourceOf(el) ==
    IF el.Kind = "Message" THEN PieceSource(el.Message[Len(el.Message)])
    ELSE PieceSource(el.FilePath)

FromPost(elements, p) == SelectSeq(elements, LAMBDA el : SourceOf(el) = p)

LookupFailed == appErr \in {"get_attachment_error", "get_users_in_channel_during"}

\* C2: the content events of a channel transcript keep the order of the posts:
\* an event of an earlier post of the channel precedes every event of a later
\* one, a post's events are all there, once each and in the order they were
\* made, and only in the transcript of the post's channel.
C2_EncounterOrder ==
    /\ \A k \in DOMAIN channelExports :
          LET ce == channelExports[k]
              E  == ce.Elements
          IN  /\ \A i \in DOMAIN E :
                    /\ SourceOf(E[i]) \in DOMAIN posts
                    /\ ~posts[SourceOf(E[i])].IsNil
                    /\ posts[SourceOf(E[i])].ChannelId = ce.ChannelId
              /\ \A i, j \in DOMAIN E : i < j => SourceOf(E[i]) <= SourceOf(E[j])
              /\ \A p \in DOMAIN posts :
                    (~posts[p].IsNil /\ posts[p].ChannelId = ce.ChannelId) =>
                        FromPost(E, p) = PostElements(posts[p], fileStore[p])
              /\ \A k2 \in DOMAIN channelExports :
                    channelExports[k2].ChannelId = ce.ChannelId => k2 = k
    /\ pc \in {"write_main", "files"} =>
          \A p \in DOMAIN posts :
              ~posts[p].IsNil =>
                  \E k \in DOMAIN channelExports :
                      channelExports[k].ChannelId = posts[p].ChannelId

\* two posts of one channel, the first with several events, and a transcript
C2_Witness ==
    /\ Len(posts) = 2
    /\ ~posts[1].IsNil /\ ~posts[2].IsNil
    /\ posts[1].ChannelId = posts[2].ChannelId
    /\ \E k \in DOMAIN channelExports : Len(channelExports[k].Elements) >= 6

\* the scenario: one post by A at 1200 in channel c1, window [1000, 2000],
\* rows (A, 900, no exit) and (B, 1500, 1600)
ScenarioInput ==
    /\ posts = <<MkPost(1, [IsNil |-> FALSE, ChannelId |-> "c1", UserId |-> "A",
                           Deleted |-> FALSE, HasFile |-> FALSE])>>
    /\ historyStore["c1"] = ScenarioHistory
    /\ JobWindow = [StartTime |-> 1000, EndTime |-> 2000]

JoinPairs(ce) ==
    [i \in DOMAIN ce.JoinEvents |-> <<ce.JoinEvents[i].UserEmail, ce.JoinEvents[i].JoinTime>>]

LeavePairs(ce) ==
    [i \in DOMAIN ce.LeaveEvents |-> <<ce.LeaveEvents[i].UserEmail, ce.LeaveEvents[i].LeaveTime>>]

ScenarioContent(ce) ==
    /\ Len(ce.Elements) = 1
    /\ ce.Elements[1].Kind = "Message"
    /\ ce.Elements[1].UserEmail = EmailOf("A")
    /\ ce.Elements[1].PostTime = 1200
    /\ ce.Elements[1].Message = <<MessageTexts[1]>>

\* C5 as stated: in the scenario the join events are [A@1000], the content
\* events [A's message @1200] and the leave events [B@1600, A@2000].
C5_Original ==
    (ScenarioInput /\ channelExports # <<>>) =>
        /\ JoinPairs(channelExports[1]) = <<<<EmailOf("A"), 1000>>>>
        /\ ScenarioContent(channelExports[1])
        /\ LeavePairs(channelExports[1]) = <<<<EmailOf("B"), 1600>>, <<EmailOf("A"), 2000>>>>

\* C5 (amended): in the scenario the join events are [A@1000, B@1500], the
\* content events [A's message @1200] and the leave events [B@1600, A@2000].
C5_Scenario ==
    (ScenarioInput /\ channelExports # <<>>) =>
        /\ JoinPairs(channelExports[1]) = <<<<EmailOf("A"), 1000>>, <<EmailOf("B"), 1500>>>>
        /\ ScenarioContent(channelExports[1])
        /\ LeavePairs(channelExports[1]) = <<<<EmailOf("B"), 1600>>, <<EmailOf("A"), 2000>>>>

C5_Witness ==
    /\ ScenarioInput
    /\ Len(channelExports) = 1
    /\ channelExports[1].ChannelId = "c1"
    /\ pc = "done" /\ appErr = "nil"

\* C9: when a store lookup fails (attachments of a post, history of a channel)
\* it is the last lookup issued, ActianceExport has returned an error, and
\* nothing was asked of the export backend or of the attachment backend: no
\* document, no attachment copy, no warning file.
C9_LookupFailure ==
    \A i \in DOMAIN lookups :
        ~lookups[i].ok =>
            /\ i = Len(lookups)
            /\ pc = "done"
            /\ LookupFailed
            /\ exportBackend = <<>>
            /\ readLog = <<>>
            /\ export = <<>>

\* the history lookup of the second channel fails, after a post with a file
C9_Witness ==
    /\ pc = "done"
    /\ appErr = "get_users_in_channel_during"
    /\ Len(channelExports) = 1
    /\ allUploadedFiles # <<>>
    /\ Len(lookups) >= 3 /\ ~lookups[Len(lookups)].ok

(***************************************************************************)
(* Properties of writeExport, checked under SpecWrite.                     *)
(***************************************************************************)
Returned == pc = "done"

WrittenTo(path) == {i \in DOMAIN exportBackend : exportBackend[i].path = path}

FailedReads == SelectSeq(readLog, LAMBDA r : ~r.ok)

CopyPaths == {PathJoin(ExportDirectory, uploadedFiles[k].Path) : k \in DOMAIN uploadedFiles}

MainPath == PathJoin(ExportDirectory, ActianceExportFilename)

WarningPath == PathJoin(ExportDirectory, ActianceWarningFilename)

\* C8: when writeExport has returned, the document was serialized and no write
\* to the export backend failed: the main document is written; every upload
\* was read once, in order; each one whose read succeeded is copied under the
\* same relative path and no other is; warningCount is the number of failed
\* reads; the warning file is written exactly when that number is above 0, with
\* one line per failed file, in input order, each naming the file's path.
C8_ReadFailuresTolerated ==
    (/\ Returned
     /\ appErr # "marshalToXml"
     /\ \A i \in DOMAIN exportBackend : exportBackend[i].ok) =>
        /\ appErr = "nil"
        /\ exportBackend # <<>> /\ exportBackend[1].path = MainPath
        /\ Cardinality(WrittenTo(MainPath)) = 1
        /\ Len(readLog) = Len(uploadedFiles)
        /\ \A k \in DOMAIN uploadedFiles :
              /\ readLog[k].path = uploadedFiles[k].Path
              /\ readLog[k].ok =>
                    \E i \in WrittenTo(PathJoin(ExportDirectory, uploadedFiles[k].Path)) :
                        exportBackend[i].content = <<"contents of", uploadedFiles[k].Path>>
        /\ Cardinality({i \in DOMAIN exportBackend : exportBackend[i].path \in CopyPaths})
              = Len(readLog) - Len(FailedReads)
        /\ warningCount = Len(FailedReads)
        /\ (WrittenTo(WarningPath) # {}) <=> (Len(FailedReads) > 0)
        /\ Cardinality(WrittenTo(WarningPath)) <= 1
        /\ \A i \in WrittenTo(WarningPath) :
              /\ i = Len(exportBackend)
              /\ Len(exportBackend[i].content) = Len(FailedReads)
              /\ \A j \in DOMAIN FailedReads :
                    exportBackend[i].content[j] =
                        <<"Warning:", MissingFileMessage, " - ", FailedReads[j].path>>

\* three uploads, the reads of two of them fail, the other is copied
C8_Witness ==
    /\ Returned /\ appErr = "nil"
    /\ Len(uploadedFiles) = 3
    /\ Len(FailedReads) = 2
    /\ warningCount = 2
    /\ WrittenTo(WarningPath) # {}

C8_OneMissing ==
    /\ Returned /\ appErr = "nil"
    /\ Len(uploadedFiles) = 1 /\ Len(FailedReads) = 1
    /\ warningCount = 1

MainFailed ==
    \/ appErr = "marshalToXml"
    \/ WrittenTo(MainPath) # {} /\ \E i \in WrittenTo(MainPath) : ~exportBackend[i].ok

\* C10: when serializing or writing the main document fails, writeExport has
\* returned an error, no attachment was opened or copied, no warning file was
\* written, and the document was written at most once (no retry).
C10_MainDocumentFatal ==
    MainFailed =>
        /\ Returned
        /\ appErr \in {"marshalToXml", "write_file"}
        /\ readLog = <<>>
        /\ openStreams = {}
        /\ Len(exportBackend) <= 1
        /\ \A i \in DOMAIN exportBackend : exportBackend[i].path = MainPath
        /\ warningCount = 0

\* the write of the document failed with uploads waiting to be copied
C10_Witness ==
    /\ Returned
    /\ appErr = "write_file"
    /\ Len(exportBackend) = 1 /\ ~exportBackend[1].ok
    /\ Len(uploadedFiles) >= 2

(***************************************************************************)
(* Claims about a failing copy, a failing warning file and the read        *)
(* streams of writeExport, under SpecWrite.                                *)
(***************************************************************************)
CopyFailures ==
    {i \in DOMAIN exportBackend :
        exportBackend[i].path \in CopyPaths /\ ~exportBackend[i].ok}

LastRead == readLog[Len(readLog)]

\* C11: a failed copy of an attachment whose read succeeded ends writeExport
\* with an error at once: the failed copy is the last write to the backend,
\* the file it belongs to is the last one opened, and no warning file is
\* written.  A failed read never ends the pass: after it the loop stands at
\* the next file, or the pass went through every file.
C11_CopyFailureFatal ==
    /\ \A i \in CopyFailures :
          /\ Returned
          /\ appErr = "write_file"
          /\ i = Len(exportBackend)
          /\ Len(readLog) = fileIdx
          /\ LastRead.ok
          /\ LastRead.path = uploadedFiles[fileIdx].Path
          /\ exportBackend[i].path = PathJoin(ExportDirectory, LastRead.path)
          /\ WrittenTo(WarningPath) = {}
    /\ (readLog # <<>> /\ ~LastRead.ok) =>
          \/ pc = "files" /\ fileIdx = Len(readLog) + 1
          \/ Returned /\ Len(readLog) = Len(uploadedFiles) /\ CopyFailures = {}

\* a read fails, the pass goes on, a later copy fails with a file still waiting
C11_Witness ==
    /\ CopyFailures # {}
    /\ Returned
    /\ Len(readLog) = 2 /\ ~readLog[1].ok
    /\ Len(uploadedFiles) = 3

ManifestFailed == \E i \in WrittenTo(WarningPath) : ~exportBackend[i].ok

\* C12: when the write of the warning file fails, writeExport has returned an
\* error together with the count of failed reads, which is above 0; the pass
\* went through every file; the main document and the copy of every file that
\* was read are written, before the one attempt at the warning file.
C12_ManifestFailureKeepsCount ==
    ManifestFailed =>
        /\ Returned
        /\ appErr = "write_file"
        /\ warningCount > 0
        /\ warningCount = Len(FailedReads)
        /\ Len(readLog) = Len(uploadedFiles)
        /\ exportBackend[1].path = MainPath /\ exportBackend[1].ok
        /\ WrittenTo(WarningPath) = {Len(exportBackend)}
        /\ \A k \in DOMAIN uploadedFiles :
              readLog[k].ok =>
                 \E i \in WrittenTo(PathJoin(ExportDirectory, uploadedFiles[k].Path)) :
                     /\ exportBackend[i].ok
                     /\ exportBackend[i].content = <<"contents of", uploadedFiles[k].Path>>

\* two reads fail, one file is copied, then the warning file cannot be written
C12_Witness ==
    /\ ManifestFailed
    /\ warningCount = 2
    /\ Len(exportBackend) = 3 /\ exportBackend[2].ok

\* C13: a read stream is released before the next file is processed and
\* before writeExport returns: while the loop stands between two files no
\* stream is open, never are two streams open together, and none is open
\* after the return.
C13_StreamsReleased ==
    /\ Cardinality(openStreams) <= 1
    /\ pc = "files" => openStreams = {}
    /\ Returned => openStreams = {}

\* C20: warningCount is above 0 only after a pass that went through every
\* file, and then it is the number of failed reads; when a copy failed the
\* count is 0 and no warning file is written, whatever was missing before.
C20_CountOnlyAfterFullPass ==
    /\ warningCount > 0 =>
          /\ Returned
          /\ Len(readLog) = Len(uploadedFiles)
          /\ CopyFailures = {}
          /\ warningCount = Len(FailedReads)
    /\ CopyFailures # {} =>
          /\ warningCount = 0
          /\ WrittenTo(WarningPath) = {}

\* a copy fails after two files were recorded missing
C20_Witness ==
    /\ Returned
    /\ CopyFailures # {}
    /\ Len(missingFiles) = 2
    /\ warningCount = 0

(***************************************************************************)
(* Claims about the entries of one post, under SpecClassify.               *)
(***************************************************************************)
ThePost == posts[1]

\* the lookup of the post's files, when there was one, succeeded
Completed == pc = "run" /\ idx = 2

\* the turn of the loop for the post is over, by success or by a failed lookup
Processed == Completed \/ pc = "done"

Entries == ElementsOf(elementsByChannel, ThePost.ChannelId)

\* what GetForPost found for the post, when the post has file ids
Resolved == IF ThePost.PostFileIds = <<>> THEN <<>> ELSE fileStore[1]

CarriesDeletion == ThePost.PostDeleteAt # <<>> /\ ThePost.PostDeleteAt[1] > 0

\* of PropsChoices, the one text that is a mapping with the deleteBy key
MarkerPresent == ThePost.PostProps = <<"{\"deleteBy\":\"u1\"}">>

Unparseable == ThePost.PostProps = <<"{">>

MessageEvents == {i \in DOMAIN Entries : Entries[i].Kind = "Message"}

OwnEvents == {i \in MessageEvents : Entries[i].Message = ThePost.PostMessage}

MessageDeletes ==
    {i \in MessageEvents : Entries[i].Message = <<"delete ">> \o ThePost.PostMessage}

FileDeletes(path) == {i \in MessageEvents : Entries[i].Message = <<"delete ", path>>}

Starts == {i \in DOMAIN Entries : Entries[i].Kind = "FileTransferStarted"}

Stops == {i \in DOMAIN Entries : Entries[i].Kind = "FileTransferEnded"}

LookupsFailed == \E k \in DOMAIN lookups : ~lookups[k].ok

\* C14: a post gets a message-delete event exactly when its deletion time is
\* set (above 0) and its props are a mapping holding the deleteBy key; the
\* event comes right after the post's own event, at the deletion time, with
\* the text "delete " followed by the message, for the post's author.  Props
\* that do not parse count as no marker and raise no error.
C14_MessageDelete ==
    Processed =>
        /\ OwnEvents = {1}
        /\ Entries[1].PostTime = ThePost.PostCreateAt
        /\ (MessageDeletes # {}) <=> (CarriesDeletion /\ MarkerPresent)
        /\ MessageDeletes \subseteq {2}
        /\ \A i \in MessageDeletes :
              /\ Entries[i].PostTime = ThePost.PostDeleteAt[1]
              /\ Entries[i].UserEmail = ThePost.UserEmail
              /\ Entries[i].UserType = Entries[1].UserType
        /\ Unparseable =>
              /\ MessageDeletes = {}
              /\ ~LookupsFailed => Completed /\ appErr = "nil"

\* a deleted post with the marker and two attachments
C14_Witness ==
    /\ Completed
    /\ MessageDeletes = {2}
    /\ Len(Resolved) = 2
    /\ Len(Entries) >= 6

\* C15 as stated: a post with a deletion time and no marker has exactly one
\* message-type event, its own at its creation time, and no message-delete
\* event, whatever its attachments.
C15_Original ==
    (Processed /\ CarriesDeletion /\ ~MarkerPresent) =>
        /\ MessageEvents = {1}
        /\ OwnEvents = {1}
        /\ Entries[1].PostTime = ThePost.PostCreateAt
        /\ MessageDeletes = {}

DeletedAttachments == {k \in DOMAIN Resolved : Resolved[k].DeleteAt > 0}

\* C15: a post with a deletion time and no marker has exactly one event for
\* its own text, at its creation time, and no message-delete event; its other
\* message-type events are one "delete <path>" event, at the post's deletion
\* time, for each found attachment that is itself deleted, so that the post's
\* own event is its only message-type event when no attachment is deleted.
C15_NoMarker ==
    (Processed /\ CarriesDeletion /\ ~MarkerPresent) =>
        /\ OwnEvents = {1}
        /\ Entries[1].PostTime = ThePost.PostCreateAt
        /\ MessageDeletes = {}
        /\ Cardinality(MessageEvents) =
              1 + (IF Completed THEN Cardinality(DeletedAttachments) ELSE 0)
        /\ \A i \in MessageEvents \ {1} :
              /\ Entries[i].PostTime = ThePost.PostDeleteAt[1]
              /\ \E k \in DeletedAttachments : i \in FileDeletes(Resolved[k].Path)

\* a deleted post without the marker, one attachment deleted and one not
C15_Witness ==
    /\ Completed
    /\ CarriesDeletion /\ ThePost.PostProps = <<"{}">>
    /\ Len(Resolved) = 2
    /\ Cardinality(DeletedAttachments) = 1
    /\ Cardinality(MessageEvents) = 2

\* the entries of the post that come before those of its attachments
OwnCount == 1 + Cardinality(MessageDeletes)

\* C16: a post for which n attachments were found adds n upload-start events
\* and then n upload-stop events to its channel, in the order of the
\* attachments, each with the post's creation time, the author's email and
\* the attachment's name and path, the stops with status "Completed", and
\* adds the n file infos, in order, to the files to copy; n is what the
\* lookup found, not the number of file ids.  The files to copy are as many
\* as the start events and as the stop events; a failed lookup adds none.
C16_Attachments ==
    /\ Completed =>
          LET n == Len(Resolved)
          IN  /\ Starts = {OwnCount + k : k \in 1..n}
              /\ Stops = {OwnCount + n + k : k \in 1..n}
              /\ \A k \in 1..n :
                    /\ Entries[OwnCount + k].UploadStartTime = ThePost.PostCreateAt
                    /\ Entries[OwnCount + k].UserEmail = ThePost.UserEmail
                    /\ Entries[OwnCount + k].Filename = Resolved[k].Name
                    /\ Entries[OwnCount + k].FilePath = Resolved[k].Path
                    /\ Entries[OwnCount + n + k].UploadStopTime = ThePost.PostCreateAt
                    /\ Entries[OwnCount + n + k].UserEmail = ThePost.UserEmail
                    /\ Entries[OwnCount + n + k].Filename = Resolved[k].Name
                    /\ Entries[OwnCount + n + k].FilePath = Resolved[k].Path
                    /\ Entries[OwnCount + n + k].Status = "Completed"
              /\ allUploadedFiles = Resolved
    /\ Processed =>
          /\ Len(allUploadedFiles) = Cardinality(Starts)
          /\ Len(allUploadedFiles) = Cardinality(Stops)

\* one file id, two attachments found for it, one of them deleted
C16_Witness ==
    /\ Completed
    /\ Len(ThePost.PostFileIds) = 1
    /\ Len(Resolved) = 2
    /\ Cardinality(DeletedAttachments) = 1
    /\ Len(allUploadedFiles) = 2

\* C17: a found attachment gets a "delete <path>" event exactly when its own
\* deletion time is set and the post carries a deletion time, in the sense
\* in which the message-delete event asks for one (set and above 0); the
\* event is at the post's deletion time and comes after every upload-start
\* and upload-stop event of the post.
C17_FileDelete ==
    Completed =>
        \A k \in DOMAIN Resolved :
           /\ (FileDeletes(Resolved[k].Path) # {})
                 <=> (Resolved[k].DeleteAt > 0 /\ CarriesDeletion)
           /\ \A i \in FileDeletes(Resolved[k].Path) :
                 /\ Entries[i].PostTime = ThePost.PostDeleteAt[1]
                 /\ \A j \in Starts \cup Stops : j < i

(***************************************************************************)
(* Claims about the synthesized leaves, under SpecMembers.                 *)
(***************************************************************************)
\* the rows of the history that give the user (email) a join and a leave
RowsOf(email) == {k \in DOMAIN mHistory : RowIntersects(k) /\ RowEmail(k) = email}

EmailsSeen ==
    {RowEmail(k) : k \in DOMAIN mHistory}
        \cup {mExport.JoinEvents[i].UserEmail : i \in DOMAIN mExport.JoinEvents}
        \cup {mExport.LeaveEvents[i].UserEmail : i \in DOMAIN mExport.LeaveEvents}

\* the latest join event of a user with at least one
LatestJoinOf(email) ==
    CHOOSE i \in JoinsOf(email) :
        \A j \in JoinsOf(email) :
            mExport.JoinEvents[j].JoinTime <= mExport.JoinEvents[i].JoinTime

LatestJoinTime(email) == mExport.JoinEvents[LatestJoinOf(email)].JoinTime

\* the leaves of the user beyond the one each of the user's rows gives
SynthesizedFor(email) == Cardinality(LeavesOf(email)) - Cardinality(RowsOf(email))

NoLaterLeave(email) ==
    \A k \in RowsOf(email) : ~(RowLeaveAt(k) > LatestJoinTime(email))

\* C18: buildChannelExport adds a leave at the window end for a user exactly
\* when the user has a join event and none of the leaves reconstructed from
\* the user's rows is strictly later than the user's latest join; it adds at
\* most one per user, and the added leave has the user type of the latest
\* join.
C18_SynthesizedLeave ==
    Built =>
        \A email \in EmailsSeen :
           /\ SynthesizedFor(email) \in {0, 1}
           /\ (SynthesizedFor(email) = 1)
                 <=> (JoinsOf(email) # {} /\ NoLaterLeave(email))
           /\ SynthesizedFor(email) = 1 =>
                 /\ Cardinality(LeavesAt(email, mChannel.EndTime)) =
                       1 + Cardinality({k \in RowsOf(email) :
                                           RowLeaveAt(k) = mChannel.EndTime})
                 /\ \A i \in LeavesAt(email, mChannel.EndTime) :
                       mExport.LeaveEvents[i].UserType =
                           mExport.JoinEvents[LatestJoinOf(email)].UserType

\* one user joins and leaves at the same time inside the window and gets a
\* leave at the window end, another leaves after joining and gets none
C18_Witness ==
    /\ Built
    /\ \E e1, e2 \in EmailsSeen :
          /\ SynthesizedFor(e1) = 1
          /\ \E k \in RowsOf(e1) : RowLeaveAt(k) < mChannel.EndTime
          /\ JoinsOf(e2) # {} /\ SynthesizedFor(e2) = 0

JoinsWithinWindow ==
    \A i \in DOMAIN mExport.JoinEvents :
        mExport.JoinEvents[i].JoinTime <= mChannel.EndTime

====
